---- MODULE Spec2Model ----
(***************************************************************************)
(* Model of custom_components/amazon_rekognition/image_processing.py:      *)
(* the response parser (get_object_instances, get_objects), the filename   *)
(* sanitizer, the client initializer loop of setup_platform and the        *)
(* ObjectDetection entity (process_image, device_state_attributes,         *)
(* save_image).                                                            *)
(*                                                                         *)
(* Conventions.  Text is a sequence of one-character strings, so that      *)
(* str.lower(), str.strip(), str.replace() and re.sub() are computed.      *)
(* A Python value that may be None is None == <<>> or Some(x) == <<x>>.    *)
(* A confidence is an integer number of hundredths of a percent point      *)
(* (9826 is 98.26); a rounded confidence is a number of tenths (983 is     *)
(* 98.3).  A dict is a function whose domain is its key set.               *)
(***************************************************************************)
EXTENDS Integers, Sequences, FiniteSets, TLC

VARIABLES
    config,     \* the validated platform configuration handed to setup_platform
    pc,         \* where setup_platform is: "loop", "after_loop", "Ready", "Failed", "Idle"
    retries,    \* setup_platform's local retries
    success,    \* setup_platform's local success
    client,     \* setup_platform's local client: None until boto3.client returns
    outcomes,   \* how each boto3.client call so far ended, in order
    raised,     \* what setup_platform raised: None, Some("Exception") or Some("Other")
    entities,   \* the list handed to add_devices: one ObjectDetection per camera
    service,    \* which remote service answers detect_labels: "any" or "sample"
    now,        \* the wall clock, in seconds
    files,      \* the names of the files present in the save folder
    lastCall,   \* the process_image call that has run and not yet returned to the host
    parse       \* the argument/result cell of the response-parser specification

vars == <<config, pc, retries, success, client, outcomes, raised, entities,
          service, now, files, lastCall, parse>>

(***************************************************************************)
(* Bounds of the model.                                                    *)
(***************************************************************************)
MaxLabels == 2          \* labels per response
MaxInstances == 2       \* instances per label in the parser specification
MaxCalls == 2           \* process_image calls (seconds of wall clock)
MaxRetries == 2         \* largest configured boto_retries
MaxCameras == 2         \* largest configured camera source list

None == <<>>
Some(x) == <<x>>

Range(s) == {s[i] : i \in 1..Len(s)}
SeqsUpTo(S, n) == UNION {[1..k -> S] : k \in 0..n}

(***************************************************************************)
(* Text.                                                                   *)
(***************************************************************************)
UPPER == <<"A","B","C","D","E","F","G","H","I","J","K","L","M",
           "N","O","P","Q","R","S","T","U","V","W","X","Y","Z">>
LOWER == <<"a","b","c","d","e","f","g","h","i","j","k","l","m",
           "n","o","p","q","r","s","t","u","v","w","x","y","z">>
DIGITS == <<"0","1","2","3","4","5","6","7","8","9">>

\* str.lower() on one character
LowerOf == [c \in {UPPER[i] : i \in 1..Len(UPPER)} |->
              LOWER[CHOOSE i \in 1..Len(UPPER) : UPPER[i] = c]]
LowerChar(c) == IF c \in DOMAIN LowerOf THEN LowerOf[c] ELSE c

\* str.lower()
Lower(s) == [i \in 1..Len(s) |-> LowerChar(s[i])]

\* str.strip(): drop leading and trailing blanks
RECURSIVE LStrip(_)
LStrip(s) == IF s # <<>> /\ Head(s) = " " THEN LStrip(Tail(s)) ELSE s
RECURSIVE RStrip(_)
RStrip(s) ==
    IF s # <<>> /\ s[Len(s)] = " " THEN RStrip(SubSeq(s, 1, Len(s) - 1)) ELSE s
Strip(s) == RStrip(LStrip(s))

\* str.replace(" ", "_")
ReplaceBlank(s) == [i \in 1..Len(s) |-> IF s[i] = " " THEN "_" ELSE s[i]]

\* the character class [-\w.] of get_valid_filename's pattern
FilenameChars ==
    Range(UPPER) \cup Range(LOWER) \cup Range(DIGITS) \cup {"_", "-", "."}
IsFilenameChar(c) == c \in FilenameChars

\* re.sub(r"(?u)[^-\w.]", "", str(name).strip().replace(" ", "_"))
get_valid_filename(name) == SelectSeq(ReplaceBlank(Strip(name)), IsFilenameChar)

\* split_entity_id(entity_id)[1]: the part after the first "."
RECURSIVE AfterDot(_)
AfterDot(s) ==
    IF s = <<>> THEN <<>> ELSE IF Head(s) = "." THEN Tail(s) ELSE AfterDot(Tail(s))
split_entity_id_object(entity_id) == AfterDot(entity_id)

REKOGNITION_PREFIX == <<"r","e","k","o","g","n","i","t","i","o","n","_">>
LATEST_SUFFIX == <<"_","l","a","t","e","s","t",".","j","p","g">>
JPG_SUFFIX == <<".","j","p","g">>
KEY_TARGETS == <<"t","a","r","g","e","t","s">>
KEY_LAST_TARGET_DETECTION ==
    <<"l","a","s","t","_","t","a","r","g","e","t","_",
      "d","e","t","e","c","t","i","o","n">>

\* dt.strftime(DATETIME_FORMAT), DATETIME_FORMAT = "%Y-%m-%d_%H:%M:%S", for the
\* instants 2020-01-01 00:00:00 + t seconds, t < 60
TwoDigits(n) == <<DIGITS[(n \div 10) + 1], DIGITS[(n % 10) + 1]>>
Strftime(t) ==
    <<"2","0","2","0","-","0","1","-","0","1","_","0","0",":","0","0",":">>
        \o TwoDigits(t)

(***************************************************************************)
(* Names, confidences and responses.                                       *)
(***************************************************************************)
Person == <<"P","e","r","s","o","n">>
person == <<"p","e","r","s","o","n">>
PERSON == <<"P","E","R","S","O","N">>
Car == <<"C","a","r">>
car == <<"c","a","r">>
dog == <<"d","o","g">>

\* round(x, 1) on a float holding c hundredths: to the nearest tenth; a tie is
\* exact in binary only at .25 and .75 and then goes to the even tenth
Round1(c) ==
    LET q == c \div 10
        r == c % 10
    IN  IF r < 5 THEN q
        ELSE IF r > 5 THEN q + 1
        ELSE IF q % 2 = 0 THEN q ELSE q + 1

\* a dict with one more assignment d[k] = v
Put(d, k, v) == [x \in (DOMAIN d) \cup {k} |-> IF x = k THEN v ELSE d[x]]
EmptyDict == <<>>

\* get_object_instances: the confident instances of the first label whose
\* lowercased name is the lowercased target; [] when the loop ends
RECURSIVE ScanLabels(_, _, _, _)
ScanLabels(response, target, confidence_threshold, i) ==
    IF i > Len(response.Labels) THEN <<>>
    ELSE LET label == response.Labels[i]
             IsConfident(l) == l.Confidence > confidence_threshold
         IN  IF Lower(label.Name) = Lower(target)
             THEN SelectSeq(label.Instances, IsConfident)
             ELSE ScanLabels(response, target, confidence_threshold, i + 1)

\* a variant that keeps an instance whose confidence equals the threshold
RECURSIVE ScanLabelsAtLeast(_, _, _, _)
ScanLabelsAtLeast(response, target, confidence_threshold, i) ==
    IF i > Len(response.Labels) THEN <<>>
    ELSE LET label == response.Labels[i]
             IsConfident(l) == l.Confidence >= confidence_threshold
         IN  IF Lower(label.Name) = Lower(target)
             THEN SelectSeq(label.Instances, IsConfident)
             ELSE ScanLabelsAtLeast(response, target, confidence_threshold, i + 1)

get_object_instances_at_least(response, target, confidence_threshold) ==
    ScanLabelsAtLeast(response, target, confidence_threshold, 1)

get_object_instances(response, target, confidence_threshold) ==
    ScanLabels(response, target, confidence_threshold, 1)

\* get_objects: the dict comprehension, labels taken in order, a later label
\* with the same key overwriting an earlier one
RECURSIVE ObjectsFrom(_, _, _)
ObjectsFrom(response, i, acc) ==
    IF i > Len(response.Labels) THEN acc
    ELSE LET label == response.Labels[i]
         IN  IF Len(label.Instances) > 0
             THEN ObjectsFrom(response, i + 1,
                              Put(acc, Lower(label.Name), Round1(label.Confidence)))
             ELSE ObjectsFrom(response, i + 1, acc)

\* a variant without the "if len(label["Instances"]) > 0" filter
RECURSIVE AllObjectsFrom(_, _, _)
AllObjectsFrom(response, i, acc) ==
    IF i > Len(response.Labels) THEN acc
    ELSE AllObjectsFrom(response, i + 1,
                        Put(acc, Lower(response.Labels[i].Name),
                            Round1(response.Labels[i].Confidence)))

get_objects_unfiltered(response) == AllObjectsFrom(response, 1, EmptyDict)

get_objects(response) == ObjectsFrom(response, 1, EmptyDict)

\* a variant that takes the largest per-target count
RECURSIVE MaxOf(_)
MaxOf(s) ==
    IF s = <<>> THEN 0
    ELSE IF Head(s) >= MaxOf(Tail(s)) THEN Head(s) ELSE MaxOf(Tail(s))

\* sum(list)
RECURSIVE Sum(_)
Sum(s) == IF s = <<>> THEN 0 ELSE Head(s) + Sum(Tail(s))

(***************************************************************************)
(* Input domains.                                                          *)
(***************************************************************************)
THRESHOLD == 8000

\* the labels the remote service answers with in the entity specifications.
\* A Person label: below the threshold with an instance above it; above the
\* threshold with its instance exactly at it; with a confident and an
\* unconfident instance; without instances; and the one of the end-to-end
\* example.  A Car label: with two confident instances, or without instances.
PersonShapes ==
    { [Confidence |-> 7525, Instances |-> <<[Confidence |-> 9826]>>],
      [Confidence |-> 9826, Instances |-> <<[Confidence |-> THRESHOLD]>>],
      [Confidence |-> 9826, Instances |-> <<[Confidence |-> 9826],
                                            [Confidence |-> THRESHOLD]>>],
      [Confidence |-> 9826, Instances |-> <<>>],
      [Confidence |-> 9820, Instances |-> <<[Confidence |-> 9820]>>] }
CarShapes ==
    { [Confidence |-> 9826, Instances |-> <<[Confidence |-> 9826],
                                            [Confidence |-> 9826]>>],
      [Confidence |-> 8775, Instances |-> <<>>] }
Labels ==
    { [Name |-> Person, Confidence |-> s.Confidence, Instances |-> s.Instances] :
      s \in PersonShapes }
    \cup
    { [Name |-> Car, Confidence |-> s.Confidence, Instances |-> s.Instances] :
      s \in CarShapes }
Responses == [Labels : SeqsUpTo(Labels, MaxLabels)]

\* a service that only ever sees an empty scene or one confident person
SampleResponses ==
    { [Labels |-> <<>>],
      [Labels |-> <<[Name |-> Person, Confidence |-> 9826,
                     Instances |-> <<[Confidence |-> 9826]>>]>>] }

\* what detect_labels may do: raise (None) or return one of the responses
AnyAnswers == {None} \cup {Some(r) : r \in Responses}
SampleAnswers == {None} \cup {Some(r) : r \in SampleResponses}
Answers(svc) == IF svc = "any" THEN AnyAnswers ELSE SampleAnswers

\* the arguments of the parser specification
ParseLabels ==
    [Name : {Person, person, Car}, Confidence : {9826},
     Instances : SeqsUpTo([Confidence : {THRESHOLD, 9826}], MaxInstances)]
ParseResponses == [Labels : SeqsUpTo(ParseLabels, MaxLabels)]
ParseTargets == {person, PERSON, car, dog}
ParseThresholds == {THRESHOLD, 9826}

(***************************************************************************)
(* The detector entity.                                                    *)
(***************************************************************************)
\* ObjectDetection.__init__ (self._region is stored and never read: left out;
\* self._labels is written by process_image and never read: left out)
ObjectDetection(client_, targets, confidence, save_file_folder, save_timestamped_file, camera_entity, name) ==
    [ _client |-> client_,
      _targets |-> targets,
      _targets_found |-> [i \in 1..Len(targets) |-> 0],
      _confidence |-> confidence,
      _save_file_folder |-> save_file_folder,
      _save_timestamped_file |-> save_timestamped_file,
      _camera_entity |-> camera_entity,
      _name |-> IF name # None /\ name[1] # <<>>
                THEN name[1]
                ELSE REKOGNITION_PREFIX \o split_entity_id_object(camera_entity),
      _state |-> None,
      _last_detection |-> None,
      _objects |-> EmptyDict ]

\* a variant that appends outside the camera loop: only the last camera's entity
BuildLastEntityOnly(cfg, client_) ==
    IF cfg.source = <<>> THEN <<>>
    ELSE LET last == cfg.source[Len(cfg.source)]
         IN  <<ObjectDetection(client_,
                               [i \in 1..Len(cfg.targets) |-> Lower(cfg.targets[i])],
                               cfg.confidence, cfg.save_file_folder,
                               cfg.save_timestamped_file, last.entity_id, last.name)>>

\* the tail of setup_platform: targets lowercased, one entity per camera, all
\* holding the one client
BuildEntities(cfg, client_) ==
    LET targets == [i \in 1..Len(cfg.targets) |-> Lower(cfg.targets[i])]
    IN  [i \in 1..Len(cfg.source) |->
            ObjectDetection(client_, targets, cfg.confidence, cfg.save_file_folder,
                            cfg.save_timestamped_file, cfg.source[i].entity_id,
                            cfg.source[i].name)]

\* the labels save_image draws: label i is skipped when its own confidence is
\* below the threshold or its lowercased name is no target; otherwise every one
\* of its instances gets a box.  A box is <<label index, instance index>>.
RECURSIVE BoxesFrom(_, _, _, _)
BoxesFrom(response, targets, confidence, i) ==
    IF i > Len(response.Labels) THEN <<>>
    ELSE LET label == response.Labels[i]
             object_name == Lower(label.Name)
             here == IF (label.Confidence < confidence) \/ (object_name \notin Range(targets))
                     THEN <<>>
                     ELSE [j \in 1..Len(label.Instances) |-> <<i, j>>]
         IN  here \o BoxesFrom(response, targets, confidence, i + 1)

DrawnBoxes(response, targets, confidence) == BoxesFrom(response, targets, confidence, 1)

\* the two paths save_image writes
LatestPath(self) == Lower(get_valid_filename(self._name)) \o LATEST_SUFFIX
TimestampPath(self) ==
    self._name \o <<"_">>
        \o (IF self._last_detection = None THEN <<"N","o","n","e">>
            ELSE self._last_detection[1])
        \o JPG_SUFFIX

\* save_image: what decoding the image gives, then what is drawn and written.
\* decoded is "ok", "UnidentifiedImageError" (caught: warning, return) or
\* "OSError" (any other error of Image.open(...).convert: not caught)
save_image(self, decoded, response, targets, confidence) ==
    IF decoded = "UnidentifiedImageError"
    THEN [raised |-> None, boxes |-> <<>>, written |-> {}]
    ELSE IF decoded # "ok"
    THEN [raised |-> Some(decoded), boxes |-> <<>>, written |-> {}]
    ELSE [raised |-> None,
          boxes |-> DrawnBoxes(response, targets, confidence),
          written |-> {LatestPath(self)}
                        \cup (IF self._save_timestamped_file
                              THEN {TimestampPath(self)} ELSE {})]

DecodeOutcomes == {"ok", "UnidentifiedImageError", "OSError"}

\* a variant whose reset also empties the parsed label data
ResetAlsoObjects(self) ==
    [self EXCEPT !._state = None,
                 !._objects = EmptyDict,
                 !._targets_found = [i \in 1..Len(self._targets) |-> 0]]

\* process_image up to the detect_labels call: the per-call reset
ResetForCall(self) ==
    [self EXCEPT !._state = None,
                 !._targets_found = [i \in 1..Len(self._targets) |-> 0]]

\* process_image after detect_labels returned response, at wall-clock time t
TargetsFound(self, response) ==
    [i \in 1..Len(self._targets) |->
        Len(get_object_instances(response, self._targets[i], self._confidence))]

\* a variant that stamps every call, detection or not
WithCountsAlwaysStamped(self, response, found, state, t) ==
    [self EXCEPT !._objects = get_objects(response),
                 !._targets_found = found,
                 !._state = Some(state),
                 !._last_detection = Some(Strftime(t))]

WithCounts(self, response, found, state, t) ==
    [self EXCEPT !._objects = get_objects(response),
                 !._targets_found = found,
                 !._state = Some(state),
                 !._last_detection = IF state > 0 THEN Some(Strftime(t)) ELSE @]

AfterDetect(self, response, t) ==
    WithCounts(self, response, TargetsFound(self, response),
               Sum(TargetsFound(self, response)), t)

\* a variant that saves whenever a folder is configured
SaveInvokedWithoutDetection(self) == self._save_file_folder # None

SaveInvoked(self) == self._save_file_folder # None /\ self._state[1] > 0

\* device_state_attributes: attr IS self._objects, so the two keys are added to
\* the entity's own dict
device_state_attributes(self) ==
    LET attr == Put(self._objects, KEY_TARGETS, self._targets)
    IN  IF self._last_detection # None
        THEN Put(attr, KEY_LAST_TARGET_DETECTION, self._last_detection[1])
        ELSE attr

NoCall ==
    [n |-> 0, entity |-> 0, time |-> 0, client |-> None, response |-> None,
     raised |-> None, save_invoked |-> FALSE, decoded |-> None, boxes |-> <<>>,
     written |-> {}]

\* the call's record: what save_image did, or that it was not invoked
CallRecord(base, answer, invoked, decoded, saved) ==
    IF invoked
    THEN [base EXCEPT !.response = answer, !.save_invoked = TRUE,
                      !.decoded = Some(decoded), !.raised = saved.raised,
                      !.boxes = saved.boxes, !.written = saved.written]
    ELSE [base EXCEPT !.response = answer]

ProcessImage(e) ==
    /\ pc = "Ready"
    /\ lastCall.entity = 0
    /\ lastCall.n < MaxCalls
    /\ \E self \in {ResetForCall(entities[e])} :
       \E base \in {[NoCall EXCEPT !.n = lastCall.n + 1, !.entity = e, !.time = now,
                                   !.client = Some(self._client)]} :
       \E answer \in Answers(service) :
         IF answer = None
         THEN \* detect_labels raises: nothing after it runs
              /\ entities' = [entities EXCEPT ![e] = self]
              /\ lastCall' = [base EXCEPT !.raised = Some("detect_labels")]
              /\ UNCHANGED files
         ELSE \E after \in {AfterDetect(self, answer[1], now)} :
              \E invoked \in {SaveInvoked(after)} :
              \E decoded \in IF invoked THEN DecodeOutcomes ELSE {"ok"} :
              \E saved \in {IF invoked
                            THEN save_image(after, decoded, answer[1],
                                            after._targets, after._confidence)
                            ELSE [raised |-> None, boxes |-> <<>>, written |-> {}]} :
                /\ entities' = [entities EXCEPT ![e] = after]
                /\ files' = files \cup saved.written
                /\ lastCall' = CallRecord(base, answer, invoked, decoded, saved)
    /\ now' = now + 1
    /\ UNCHANGED <<config, pc, retries, success, client, outcomes, raised, service, parse>>

\* process_image has returned (or raised) to the host framework, which
\* serializes the calls: the next call may start
CallReturns ==
    /\ lastCall.entity # 0
    /\ lastCall' = [NoCall EXCEPT !.n = lastCall.n]
    /\ UNCHANGED <<config, pc, retries, success, client, outcomes, raised, entities,
                   service, now, files, parse>>

DeviceStateAttributes(e) ==
    /\ pc = "Ready"
    /\ entities' = [entities EXCEPT ![e]._objects = device_state_attributes(entities[e])]
    /\ UNCHANGED <<config, pc, retries, success, client, outcomes, raised, service,
                   now, files, lastCall, parse>>

(***************************************************************************)
(* setup_platform: the client initializer.                                 *)
(***************************************************************************)
\* boto3.client(...) returns a client, raises KeyError, or raises something else
ConstructorOutcomes == {"ok", "KeyError", "Other"}

\* a variant with the off-by-one "retries < boto_retries"
LoopConditionStrict(r, boto_retries) == r < boto_retries

\* while retries <= config[CONF_BOTO_RETRIES]
LoopCondition(r, boto_retries) == r <= boto_retries

\* one pass of the while loop: boto3.client(...) returns (break), raises
\* KeyError (count, sleep one second) or raises anything else (not caught)
AttemptClient ==
    /\ pc = "loop"
    /\ LoopCondition(retries, config.boto_retries)
    /\ \E outcome \in ConstructorOutcomes :
         /\ outcomes' = Append(outcomes, outcome)
         /\ IF outcome = "ok"
            THEN /\ client' = Some(Len(outcomes) + 1)
                 /\ success' = TRUE
                 /\ pc' = "after_loop"
                 /\ UNCHANGED <<retries, raised, now>>
            ELSE IF outcome = "KeyError"
            THEN /\ retries' = retries + 1
                 /\ now' = now + 1
                 /\ UNCHANGED <<client, success, pc, raised>>
            ELSE /\ raised' = Some(outcome)
                 /\ pc' = "Failed"
                 /\ UNCHANGED <<client, success, retries, now>>
    /\ UNCHANGED <<config, entities, service, files, lastCall, parse>>

\* the while condition is false
ExitLoop ==
    /\ pc = "loop"
    /\ ~LoopCondition(retries, config.boto_retries)
    /\ pc' = "after_loop"
    /\ UNCHANGED <<config, retries, success, client, outcomes, raised, entities,
                   service, now, files, lastCall, parse>>

\* after the loop: raise, or build the entities and add_devices(entities)
AfterLoop ==
    /\ pc = "after_loop"
    /\ IF ~success
       THEN /\ raised' = Some("Exception")
            /\ pc' = "Failed"
            /\ UNCHANGED entities
       ELSE /\ entities' = BuildEntities(config, client[1])
            /\ pc' = "Ready"
            /\ UNCHANGED raised
    /\ UNCHANGED <<config, retries, success, client, outcomes, service, now, files,
                   lastCall, parse>>

(***************************************************************************)
(* The response parser on its own.                                         *)
(***************************************************************************)
ApplyParser ==
    /\ parse.result = None
    /\ parse' = [parse EXCEPT !.result =
                    Some(get_object_instances(parse.response, parse.target,
                                              parse.threshold))]
    /\ UNCHANGED <<config, pc, retries, success, client, outcomes, raised, entities,
                   service, now, files, lastCall>>

(***************************************************************************)
(* Configurations and specifications.                                      *)
(***************************************************************************)
\* camera i of a source list: odd cameras are unnamed, even ones carry a name
\* with blanks, capitals and a character no filename keeps
Camera(i) ==
    [entity_id |-> <<"c","a","m","e","r","a",".">> \o <<LOWER[i]>> \o <<"_","1">>,
     name |-> IF i % 2 = 1 THEN None
              ELSE Some(<<" ","C","a","m"," ">> \o <<UPPER[i]>> \o <<"*">>)]

DetectionModes ==
    { [targets |-> <<Person>>, folder |-> None, stamped |-> FALSE],
      [targets |-> <<person, car>>, folder |-> Some("www"), stamped |-> FALSE],
      [targets |-> <<person, person>>, folder |-> Some("www"), stamped |-> TRUE] }

EntityConfig(i, m) ==
    [boto_retries |-> 0, source |-> <<Camera(i)>>, targets |-> m.targets,
     confidence |-> THRESHOLD, save_file_folder |-> m.folder,
     save_timestamped_file |-> m.stamped]

\* the unnamed camera in every mode; the named one in the modes that save,
\* where its name shows
EntityConfigs ==
    {EntityConfig(1, m) : m \in DetectionModes}
        \cup {EntityConfig(2, m) : m \in {d \in DetectionModes : d.folder # None}}

SetupConfigs ==
    { [boto_retries |-> n, source |-> [i \in 1..k |-> Camera(i)],
       targets |-> <<Person>>, confidence |-> THRESHOLD,
       save_file_folder |-> Some("www"), save_timestamped_file |-> FALSE] :
      n \in 0..MaxRetries, k \in 0..MaxCameras }

ParseIdle == [response |-> [Labels |-> <<>>], target |-> <<>>, threshold |-> 0, result |-> None]

\* the entity, constructed by a setup_platform whose first attempt succeeded
Init ==
    /\ config \in EntityConfigs
    /\ pc = "Ready"
    /\ retries = 0
    /\ success = TRUE
    /\ client = Some(1)
    /\ outcomes = <<"ok">>
    /\ raised = None
    /\ entities = BuildEntities(config, 1)
    /\ service = "any"
    /\ now = 0
    /\ files = {}
    /\ lastCall = NoCall
    /\ parse = ParseIdle

Next ==
    \/ \E e \in 1..Len(entities) : ProcessImage(e)
    \/ \E e \in 1..Len(entities) : DeviceStateAttributes(e)
    \/ CallReturns

Spec == Init /\ [][Next]_vars

\* setup_platform from its first line, then the registered entities at work
InitSetup ==
    /\ config \in SetupConfigs
    /\ pc = "loop"
    /\ retries = 0
    /\ success = FALSE
    /\ client = None
    /\ outcomes = <<>>
    /\ raised = None
    /\ entities = <<>>
    /\ service = "sample"
    /\ now = 0
    /\ files = {}
    /\ lastCall = NoCall
    /\ parse = ParseIdle

SetupStep == AttemptClient \/ ExitLoop \/ AfterLoop

NextSetup ==
    \/ AttemptClient
    \/ ExitLoop
    \/ AfterLoop
    \/ \E e \in 1..Len(entities) : ProcessImage(e)
    \/ \E e \in 1..Len(entities) : DeviceStateAttributes(e)
    \/ CallReturns

\* setup_platform is one synchronous call: once started it runs to its end
SpecSetup == InitSetup /\ [][NextSetup]_vars /\ WF_vars(SetupStep)

\* the parser applied to every argument triple
InitParse ==
    /\ config = [boto_retries |-> 0, source |-> <<>>, targets |-> <<>>,
                 confidence |-> THRESHOLD, save_file_folder |-> None,
                 save_timestamped_file |-> FALSE]
    /\ pc = "Idle"
    /\ retries = 0
    /\ success = FALSE
    /\ client = None
    /\ outcomes = <<>>
    /\ raised = None
    /\ entities = <<>>
    /\ service = "sample"
    /\ now = 0
    /\ files = {}
    /\ lastCall = NoCall
    /\ parse \in [response : ParseResponses, target : ParseTargets,
                  threshold : ParseThresholds, result : {None}]

NextParse == ApplyParser

SpecParse == InitParse /\ [][NextParse]_vars

(***************************************************************************)
(* Reference definitions used to state the properties.                     *)
(***************************************************************************)
\* the labels of a response whose lowercased name is the lowercased target
MatchingLabels(response, target) ==
    {i \in 1..Len(response.Labels) : Lower(response.Labels[i].Name) = Lower(target)}

\* the number of instances strictly above the threshold of the (first) label
\* matching the target, 0 when no label matches
ConfidentCount(response, target, threshold) ==
    LET m == MatchingLabels(response, target)
    IN  IF m = {} THEN 0
        ELSE LET first == CHOOSE i \in m : \A j \in m : i <= j
                 inst == response.Labels[first].Instances
             IN  Cardinality({k \in 1..Len(inst) : inst[k].Confidence > threshold})

\* the total over the first n entries of a target list
RECURSIVE TotalUpTo(_, _, _, _)
TotalUpTo(response, targets, threshold, n) ==
    IF n = 0 THEN 0
    ELSE ConfidentCount(response, targets[n], threshold)
           + TotalUpTo(response, targets, threshold, n - 1)

TotalOf(response, targets, threshold) ==
    TotalUpTo(response, targets, threshold, Len(targets))

\* the entity of the call that has run, and whether detect_labels answered it
Called(e) == lastCall.entity = e
Answered(e) == lastCall.entity = e /\ lastCall.response # None
Saved(e) == lastCall.entity = e /\ lastCall.save_invoked /\ lastCall.decoded = Some("ok")

\* in a step: a process_image call on entity e ran, and detect_labels answered it
CallStep(e) == lastCall.entity = 0 /\ lastCall'.entity = e
AnsweredStep(e) == CallStep(e) /\ lastCall'.response # None

ConfiguredTargets == [i \in 1..Len(config.targets) |-> Lower(config.targets[i])]

(***************************************************************************)
(* C2.  For every response, target and threshold, the number of instances  *)
(* get_object_instances returns is the number of instances, of the first   *)
(* label whose lowercased name equals the lowercased target, whose         *)
(* confidence is strictly greater than the threshold; it is 0 when no      *)
(* label name matches the target under any casing.                         *)
(***************************************************************************)
C2_CountConfidentInstances ==
    parse.result # None =>
        /\ Len(parse.result[1])
             = ConfidentCount(parse.response, parse.target, parse.threshold)
        /\ MatchingLabels(parse.response, parse.target) = {}
             => Len(parse.result[1]) = 0
        /\ \A k \in 1..Len(parse.result[1]) :
             parse.result[1][k].Confidence > parse.threshold

\* PERSON is looked up in a response whose Person label has one instance
\* exactly at the threshold and one above it: one instance is counted
C2_Witness ==
    /\ parse.result # None
    /\ parse.target = PERSON
    /\ parse.threshold = THRESHOLD
    /\ parse.response.Labels
         = <<[Name |-> Car, Confidence |-> 9826,
              Instances |-> <<[Confidence |-> 9826], [Confidence |-> 9826]>>],
             [Name |-> Person, Confidence |-> 9826,
              Instances |-> <<[Confidence |-> THRESHOLD], [Confidence |-> 9826]>>]>>
    /\ Len(parse.result[1]) = 1

(***************************************************************************)
(* C3.  After every process_image call that detect_labels answered, the    *)
(* entity's state is the sum, over the entries of its target list, of the  *)
(* confident-instance count of that call's response, and the per-target    *)
(* counts are those counts; a call that detect_labels did not answer       *)
(* leaves the reset values (no state, all counts 0).  So the state depends *)
(* on that call's response only.                                           *)
(***************************************************************************)
C3_StateIsSumOverTargets ==
    \A e \in 1..Len(entities) :
        /\ Answered(e) =>
             LET self == entities[e]
                 r == lastCall.response[1]
             IN  /\ self._state = Some(TotalOf(r, self._targets, self._confidence))
                 /\ self._targets_found =
                      [i \in 1..Len(self._targets) |->
                          ConfidentCount(r, self._targets[i], self._confidence)]
        /\ (Called(e) /\ ~Answered(e)) =>
             /\ entities[e]._state = None
             /\ \A i \in 1..Len(entities[e]._targets) : entities[e]._targets_found[i] = 0

\* a second call with two labels and two targets that finds nothing, after a
\* first call that found something
C3_Witness ==
    /\ lastCall.n = 2
    /\ Answered(1)
    /\ entities[1]._state = Some(0)
    /\ entities[1]._last_detection # None
    /\ Len(lastCall.response[1].Labels) = 2
    /\ Len(entities[1]._targets) = 2

(***************************************************************************)
(* C4.  The last-detection timestamp is absent at first; a process_image   *)
(* call that detect_labels answered with a total > 0 sets it to the        *)
(* formatted time of that call; a call with total = 0, a call that         *)
(* detect_labels did not answer and every other step leave it unchanged;   *)
(* once set it is never cleared.                                           *)
(***************************************************************************)
C4_LastDetectionStep(e) ==
    LET before == entities[e]._last_detection
        after == entities'[e]._last_detection
    IN  /\ (AnsweredStep(e) /\ entities'[e]._state[1] > 0) => after = Some(Strftime(now))
        /\ (AnsweredStep(e) /\ entities'[e]._state[1] = 0) => after = before
        /\ ~AnsweredStep(e) => after = before
        /\ before # None => after # None

C4_LastDetection ==
    /\ \A e \in 1..Len(entities) : entities[e]._last_detection = None
    /\ [][\A e \in 1..Len(entities) : C4_LastDetectionStep(e)]_vars

\* the second call, at second 1, finds nothing: the timestamp is still the one
\* of the first call, at second 0
C4_Witness ==
    /\ lastCall.n = 2
    /\ lastCall.time = 1
    /\ Answered(1)
    /\ entities[1]._state = Some(0)
    /\ entities[1]._last_detection =
         Some(<<"2","0","2","0","-","0","1","-","0","1","_",
                "0","0",":","0","0",":","0","0">>)

(***************************************************************************)
(* C5.  File output of process_image.  save_image is invoked in a call if  *)
(* and only if a save folder is configured and the call's total is > 0.    *)
(* When it is invoked and the image decodes, exactly these files are       *)
(* written: the latest file, and the timestamped copy if and only if       *)
(* save_timestamped_file is set, named with the timestamp recorded by the  *)
(* same call.  Otherwise the call writes nothing.                          *)
(***************************************************************************)
\* what a call on entity e invoked and wrote, for a given name of the latest file
C5_FilesOfCall(e, latest) ==
    LET self == entities[e]
    IN  /\ lastCall.save_invoked <=>
             /\ Answered(e)
             /\ self._save_file_folder # None
             /\ self._state[1] > 0
        /\ Saved(e) =>
             /\ latest \in lastCall.written
             /\ (self._name \o <<"_">> \o Strftime(lastCall.time) \o JPG_SUFFIX)
                   \in lastCall.written <=> self._save_timestamped_file
             /\ Cardinality(lastCall.written)
                   = IF self._save_timestamped_file THEN 2 ELSE 1
        /\ ~Saved(e) => lastCall.written = {}

SanitizedLatest(name) == get_valid_filename(name) \o LATEST_SUFFIX
LowercasedSanitizedLatest(name) == Lower(get_valid_filename(name)) \o LATEST_SUFFIX

\* the claim as stated: the latest file is "<sanitized-name>_latest.jpg"
C5_AsStated ==
    \A e \in 1..Len(entities) :
        Called(e) => C5_FilesOfCall(e, SanitizedLatest(entities[e]._name))

\* as amended: the latest file is the LOWERCASED sanitized name + "_latest.jpg";
\* and the folder changes by exactly the files the call wrote
C5_FileOutput ==
    /\ [](\A e \in 1..Len(entities) :
            Called(e) =>
                C5_FilesOfCall(e, LowercasedSanitizedLatest(entities[e]._name)))
    /\ [][ /\ (\E e \in 1..Len(entities) : CallStep(e))
                => files' = files \cup lastCall'.written
           /\ ~(\E e \in 1..Len(entities) : CallStep(e)) => files' = files ]_vars

\* the entity named " Cam B*" saves "cam_b_latest.jpg" and the copy
\* " Cam B*_2020-01-01_00:00:00.jpg"
C5_Witness ==
    /\ Saved(1)
    /\ entities[1]._name = <<" ","C","a","m"," ","B","*">>
    /\ lastCall.written =
         { <<"c","a","m","_","b","_","l","a","t","e","s","t",".","j","p","g">>,
           <<" ","C","a","m"," ","B","*","_",
             "2","0","2","0","-","0","1","-","0","1","_",
             "0","0",":","0","0",":","0","0",".","j","p","g">> }
    /\ files = lastCall.written

(***************************************************************************)
(* C6.  save_image on an image that cannot be decoded: no file is written, *)
(* no exception escapes save_image or process_image, and the detection     *)
(* state of the call (total, detected objects, timestamp) is what a        *)
(* successful save leaves.                                                  *)
(***************************************************************************)
C6_CorruptImageIsHarmless ==
    \A e \in 1..Len(entities) :
        (Called(e) /\ lastCall.save_invoked /\ lastCall.decoded # Some("ok")) =>
            /\ lastCall.written = {}
            /\ lastCall.raised = None
            /\ entities[e]._state
                 = Some(TotalOf(lastCall.response[1], entities[e]._targets,
                                entities[e]._confidence))
            /\ entities[e]._last_detection = Some(Strftime(lastCall.time))

(***************************************************************************)
(* C8.  When detect_labels raises, the error leaves process_image, the     *)
(* annotator is not invoked and no file is written; the entity's state is  *)
(* the unset value of the reset, and its detected-objects mapping and      *)
(* last-detection timestamp are those it had before the call.              *)
(***************************************************************************)
C8_FailedStep(e) ==
    (CallStep(e) /\ lastCall'.response = None) =>
        /\ lastCall'.raised = Some("detect_labels")
        /\ ~lastCall'.save_invoked
        /\ lastCall'.written = {}
        /\ files' = files
        /\ entities'[e]._state = None
        /\ entities'[e]._objects = entities[e]._objects
        /\ entities'[e]._last_detection = entities[e]._last_detection

C8_DetectFailure == [][\A e \in 1..Len(entities) : C8_FailedStep(e)]_vars

\* a second call fails after a first one that detected something
C8_Witness ==
    /\ lastCall.n = 2
    /\ Called(1)
    /\ lastCall.raised = Some("detect_labels")
    /\ entities[1]._state = None
    /\ entities[1]._objects # EmptyDict
    /\ entities[1]._last_detection # None

(***************************************************************************)
(* C10.  Whenever process_image saves an annotated image, the instances a  *)
(* rectangle is drawn for are exactly the instances counted in the state   *)
(* of that call, so the number of rectangles equals the state.             *)
(***************************************************************************)
\* the instances the state counts: for each target, the confident instances of
\* the first label matching it, as <<label index, instance index>>
CountedInstances(response, targets, threshold) ==
    UNION { LET m == MatchingLabels(response, targets[t])
            IN  IF m = {} THEN {}
                ELSE LET first == CHOOSE i \in m : \A j \in m : i <= j
                         inst == response.Labels[first].Instances
                     IN  {<<first, k>> : k \in {k \in 1..Len(inst) :
                                                   inst[k].Confidence > threshold}}
            : t \in 1..Len(targets) }

C10_BoxesAreTheCountedInstances ==
    \A e \in 1..Len(entities) :
        Saved(e) =>
            /\ Len(lastCall.boxes) = entities[e]._state[1]
            /\ Range(lastCall.boxes)
                 = CountedInstances(lastCall.response[1], entities[e]._targets,
                                    entities[e]._confidence)

(***************************************************************************)
(* C7.  Entity attributes.  After a process_image call that detect_labels  *)
(* answered, the attribute map holds exactly: for every label of that      *)
(* response with at least one instance, its lowercased name mapped to its  *)
(* confidence rounded to one decimal (the last such label of a name wins,  *)
(* labels without instances are absent); the key "targets" mapped to the   *)
(* configured (lowercased) target list; and the key                        *)
(* "last_target_detection" mapped to the timestamp if and only if one has  *)
(* been recorded.  Until the entity's next answered call no step changes   *)
(* the attribute map.                                                      *)
(***************************************************************************)
\* the labels of a response that have an instance and lowercase to key k
LabelsWithInstances(response, k) ==
    {i \in 1..Len(response.Labels) :
        /\ Len(response.Labels[i].Instances) >= 1
        /\ Lower(response.Labels[i].Name) = k}

C7_AttributesOf(e) ==
    LET self == entities[e]
        r == lastCall.response[1]
        attr == device_state_attributes(self)
        names == {Lower(r.Labels[i].Name) : i \in 1..Len(r.Labels)}
        detected == {k \in names : LabelsWithInstances(r, k) # {}}
    IN  /\ DOMAIN attr =
             detected \cup {KEY_TARGETS}
                \cup (IF self._last_detection # None
                      THEN {KEY_LAST_TARGET_DETECTION} ELSE {})
        /\ \A k \in detected :
             LET last == CHOOSE i \in LabelsWithInstances(r, k) :
                            \A j \in LabelsWithInstances(r, k) : j <= i
                 c == r.Labels[last].Confidence
             IN  \* the tenth nearest to c hundredths
                 /\ 10 * attr[k] - c \in -5..5
                 /\ 10 * attr[k] - c = 5 => attr[k] % 2 = 0
                 /\ 10 * attr[k] - c = -5 => attr[k] % 2 = 0
        /\ attr[KEY_TARGETS] = ConfiguredTargets
        /\ self._last_detection # None
             => attr[KEY_LAST_TARGET_DETECTION] = self._last_detection[1]

C7_Attributes ==
    /\ [](\A e \in 1..Len(entities) : Answered(e) => C7_AttributesOf(e))
    /\ [][\A e \in 1..Len(entities) :
            ~AnsweredStep(e) =>
                device_state_attributes(entities'[e]) = device_state_attributes(entities[e])]_vars

\* the end-to-end example: one "Person" label at 98.2 with one instance at 98.2,
\* target ["person"], threshold 80: state 1, attributes {"person": 98.2,
\* "targets": ["person"], "last_target_detection": ...}, read by the host
C7_Witness ==
    /\ Answered(1)
    /\ lastCall.response[1].Labels
         = <<[Name |-> Person, Confidence |-> 9820,
              Instances |-> <<[Confidence |-> 9820]>>]>>
    /\ entities[1]._confidence = 8000
    /\ entities[1]._state = Some(1)
    /\ DOMAIN entities[1]._objects = {person, KEY_TARGETS, KEY_LAST_TARGET_DETECTION}
    /\ entities[1]._objects[person] = 982
    /\ entities[1]._objects[KEY_TARGETS] = <<person>>

(***************************************************************************)
(* C1.  Client initializer, for every configured boto_retries N >= 0:      *)
(* when the client constructor fails on every attempt, setup makes exactly *)
(* N+1 attempts and only then reports a fatal error; never after fewer     *)
(* attempts, never more than N+1 attempts.                                 *)
(***************************************************************************)
AllFailed == \A i \in 1..Len(outcomes) : outcomes[i] # "ok"
AllKeyError == \A i \in 1..Len(outcomes) : outcomes[i] = "KeyError"

Ended == pc \in {"Ready", "Failed"}

C9_Ready ==
    pc = "Ready" =>
        /\ Len(outcomes) <= config.boto_retries + 1
        /\ outcomes[Len(outcomes)] = "ok"
        /\ \A i \in 1..(Len(outcomes) - 1) : outcomes[i] = "KeyError"
        /\ client = Some(Len(outcomes))
        /\ raised = None
        /\ Len(entities) = Len(config.source)
        /\ \A i \in 1..Len(entities) :
             /\ entities[i]._camera_entity = config.source[i].entity_id
             /\ entities[i]._client = client[1]
        /\ lastCall.entity # 0 => lastCall.client = client

C9_NotReady ==
    pc # "Ready" => (entities = <<>> /\ lastCall = NoCall)

C9_Failed ==
    pc = "Failed" =>
        /\ ~success
        /\ client = None
        /\ \/ /\ raised = Some("Exception")
              /\ retries > config.boto_retries
              /\ AllKeyError
              /\ Len(outcomes) = config.boto_retries + 1
           \/ /\ raised = Some("Other")
              /\ retries <= config.boto_retries
              /\ outcomes[Len(outcomes)] = "Other"

====
